---------------------------- MODULE Spec2Model ----------------------------
(***************************************************************************)
(* Numerical-integration dashboard: the three quadrature rules, the        *)
(* convergence analysis built on them, and the frontend components that    *)
(* display an analysis; the expression parser, the calculator's            *)
(* normalization, the App and MethodControls components, the visualization *)
(* data, the function catalog, and the analysis runs of the dashboard with *)
(* their requests in flight.                                               *)
(*                                                                         *)
(* Numbers are extended rationals <<num, den>> in lowest terms, den >= 0:  *)
(* den > 0 is a finite value, <<1,0>> and <<-1,0>> are +inf and -inf and   *)
(* <<0,0>> is NaN.  Arithmetic is exact on finite values, so every         *)
(* statement about a finite result is a statement in exact arithmetic; the *)
(* IEEE rules are kept for the non-finite values (NaN absorbs, x/0 is      *)
(* +-inf, 0/0 and inf-inf are NaN, every comparison with NaN is false).    *)
(***************************************************************************)
EXTENDS Integers, Sequences, FiniteSets, TLC

VARIABLES call, pc, req, analysis, wire, view,
          parser, norm, calc, app, sent, controls, vis, runs,
          dash, inflight, checked, submitted

\* the state of a rule call and of an analysis on its way to the display
core == <<call, pc, req, analysis, wire, view>>

\* the state of the expression parser, of a normalization, of the
\* calculator, of the App component, of the requests it has sent, of
\* MethodControls, of a visualization call and of a pair of catalog analyses
rest == <<parser, norm, calc, app, sent, controls, vis, runs>>

\* the dashboard as it runs: the state of App with the calculator's
\* expression, the analysis runs whose requests are in flight, the last
\* validation and the last submission of the calculator
more == <<dash, inflight, checked, submitted>>

vars == <<call, pc, req, analysis, wire, view,
          parser, norm, calc, app, sent, controls, vis, runs,
          dash, inflight, checked, submitted>>

(***************************************************************************)
(* Bounds of the model.                                                    *)
(***************************************************************************)
MaxCoef  == 1      \* polynomial coefficients range over 0..MaxCoef
MaxBound == 2      \* integration bounds a, b of a rule call range over 0..MaxBound
MaxN     == 4      \* subdivision counts of a rule call range over 1..MaxN
MaxNValue == 3     \* the entries of n_values range over 1..MaxNValue
MaxLen   == 2      \* n_values holds 1..MaxLen entries
MaxExprLen == 4    \* the strings normalized hold at most MaxExprLen characters
MaxTyped == 2      \* the buttons append to an expression of fewer than MaxTyped characters

(***************************************************************************)
(* Extended rational arithmetic.                                           *)
(***************************************************************************)
Abs(i) == IF i < 0 THEN -i ELSE i

Sign(i) == IF i < 0 THEN -1 ELSE IF i > 0 THEN 1 ELSE 0

RECURSIVE GCD(_, _)
GCD(i, j) == IF j = 0 THEN i ELSE GCD(j, i % j)

Norm(p, q) ==
    IF q = 0 THEN <<Sign(p), 0>>
    ELSE LET g == GCD(Abs(p), Abs(q))
         IN  <<(Sign(q) * p) \div g, Abs(q) \div g>>

NaN == <<0, 0>>
Inf == <<1, 0>>
Zero == <<0, 1>>
Int2R(i) == <<i, 1>>
Frac(p, q) == Norm(p, q)

IsNaN(x) == x = NaN
IsFinite(x) == x[2] # 0

\* the sum, over the least common denominator when both are finite
RAdd(x, y) ==
    IF x[2] = 0 /\ y[2] = 0 THEN (IF x = y THEN x ELSE NaN)
    ELSE IF x[2] = 0 \/ y[2] = 0 THEN Norm(x[1] * y[2] + y[1] * x[2], 0)
    ELSE LET g == GCD(x[2], y[2])
         IN  Norm(x[1] * (y[2] \div g) + y[1] * (x[2] \div g), (x[2] \div g) * y[2])

RNeg(x) == <<-x[1], x[2]>>

RSub(x, y) == RAdd(x, RNeg(y))

\* the product, common factors cancelled before multiplying
RMul(x, y) ==
    IF x[2] = 0 \/ y[2] = 0 THEN Norm(x[1] * y[1], 0)
    ELSE LET g1 == GCD(Abs(x[1]), y[2])
             g2 == GCD(Abs(y[1]), x[2])
         IN  Norm((x[1] \div g1) * (y[1] \div g2), (x[2] \div g2) * (y[2] \div g1))

RDiv(x, y) == RMul(x, Norm(y[2], y[1]))

RAbs(x) == <<Abs(x[1]), x[2]>>

\* x < y; false as soon as one side is NaN
RLt(x, y) ==
    /\ ~IsNaN(x)
    /\ ~IsNaN(y)
    /\ IF x[2] = 0 /\ y[2] = 0 THEN x[1] < y[1]
       ELSE x[1] * y[2] < y[1] * x[2]

\* x > 0 as JavaScript and Python evaluate it: false for NaN
RPos(x) == RLt(Zero, x)

(***************************************************************************)
(* Integrands.  A callable is a polynomial given by its coefficients       *)
(* (constant term first) and a hole: a point where evaluation yields NaN,  *)
(* as 0/0 does in sin(x)/x at 0.  A hole of NaN is no hole.                *)
(***************************************************************************)
RECURSIVE Horner(_, _, _)
Horner(coef, x, k) ==
    IF k > Len(coef) THEN Zero
    ELSE RAdd(Int2R(coef[k]), RMul(x, Horner(coef, x, k + 1)))

func(f, x) == IF x = f.hole THEN NaN ELSE Horner(f.coef, x, 1)

Poly(c) == [coef |-> c, hole |-> NaN]

Coefs == 0..MaxCoef

\* every polynomial of degree <= 3 with coefficients in Coefs: all sums of
\* the monomials 1, x, x^2, x^3 (negative coefficients come with Library)
Polynomials == {Poly(<<c0, c1, c2, c3>>) : c0 \in Coefs, c1 \in Coefs, c2 \in Coefs, c3 \in Coefs}

\* the polynomial entries of the test function library:
\* 2x + 1, x^2 - 2x, x^3 - 3x, x^4 - x^2
Library ==
    { Poly(<<1, 2>>), Poly(<<0, -2, 1>>), Poly(<<0, -3, 0, 1>>), Poly(<<0, 0, -1, 0, 1>>) }

\* custom expressions with a removable singularity: x/x, (2x-1)/(2x-1), (x-1)/(x-1)
Singular ==
    { [coef |-> <<1>>, hole |-> Zero], [coef |-> <<1>>, hole |-> Frac(1, 2)],
      [coef |-> <<1>>, hole |-> Int2R(1)] }

Integrands == Polynomials \cup Library \cup Singular

Bounds == 0..MaxBound

Methods == {"trapezoidal", "midpoint", "simpson"}

(***************************************************************************)
(* numpy helpers used by the rules.                                        *)
(***************************************************************************)
\* F applied to the value of v, v evaluated once
Bind(v, F(_)) == CHOOSE r \in {F(x) : x \in {v}} : TRUE

\* np.linspace(a, b, num): num points a + i*(b-a)/(num-1), i = 0..num-1
linspace(a, b, num) ==
    Bind(RDiv(RSub(b, a), Int2R(num - 1)),
         LAMBDA step : [i \in 1..num |-> RAdd(a, RMul(Int2R(i - 1), step))])

\* np.array([func(xi) for xi in x])
array(f, x) == [i \in 1..Len(x) |-> func(f, x[i])]

\* y[start:-1:step] of Python: the elements at 0-based indices
\* start, start+step, ... below len(y) - 1
Slice(y, start, step) ==
    LET cnt == IF Len(y) - 1 - start <= 0 THEN 0
               ELSE (Len(y) - 1 - start + step - 1) \div step
    IN  [k \in 1..cnt |-> y[start + (k - 1) * step + 1]]

\* np.nansum in place of np.sum: NaN entries are skipped
RECURSIVE nansum(_)
nansum(y) ==
    IF y = <<>> THEN Zero
    ELSE IF IsNaN(y[1]) THEN nansum(Tail(y)) ELSE RAdd(y[1], nansum(Tail(y)))

\* np.sum
RECURSIVE npsum(_)
npsum(y) == IF y = <<>> THEN Zero ELSE RAdd(y[1], npsum(Tail(y)))

(***************************************************************************)
(* The quadrature rules.                                                   *)
(***************************************************************************)
\* the trapezoidal rule with the step taken as |b - a| / n
trapezoidal_rule_abs_h(f, a, b, n) ==
    LET h == RDiv(RAbs(RSub(b, a)), Int2R(n))
    IN  Bind(array(f, linspace(a, b, n + 1)), LAMBDA y :
          RMul(RDiv(h, Int2R(2)),
               RAdd(RAdd(y[1], RMul(Int2R(2), npsum(Slice(y, 1, 1)))), y[Len(y)])))

\* the trapezoidal rule with the interior sum taken over y[1:] instead of y[1:-1]
trapezoidal_rule_open_slice(f, a, b, n) ==
    LET h == RDiv(RSub(b, a), Int2R(n))
    IN  Bind(array(f, linspace(a, b, n + 1)), LAMBDA y :
          RMul(RDiv(h, Int2R(2)),
               RAdd(RAdd(y[1], RMul(Int2R(2), npsum(Tail(y)))), y[Len(y)])))

trapezoidal_rule(f, a, b, n) ==
    LET h == RDiv(RSub(b, a), Int2R(n))
    IN  Bind(array(f, linspace(a, b, n + 1)), LAMBDA y :
          RMul(RDiv(h, Int2R(2)),
               RAdd(RAdd(y[1], RMul(Int2R(2), npsum(Slice(y, 1, 1)))), y[Len(y)])))

midpoint_rule(f, a, b, n) ==
    Bind(RDiv(RSub(b, a), Int2R(n)), LAMBDA h :
      Bind([i \in 1..n |-> RAdd(a, RMul(Frac(2 * (i - 1) + 1, 2), h))], LAMBDA midpoints :
        RMul(h, npsum(array(f, midpoints)))))

\* the subdivision count Simpson's rule computes with
simpson_n(n) == IF n % 2 # 0 THEN n + 1 ELSE n

\* Simpson's rule with the weights 4 and 2 exchanged
simpsons_rule_swapped(f, a, b, n0) ==
    LET n == simpson_n(n0)
        h == RDiv(RSub(b, a), Int2R(n))
    IN  Bind(array(f, linspace(a, b, n + 1)), LAMBDA y :
          RMul(RDiv(h, Int2R(3)),
               RAdd(RAdd(RAdd(y[1], RMul(Int2R(2), npsum(Slice(y, 1, 2)))),
                         RMul(Int2R(4), npsum(Slice(y, 2, 2)))),
                    y[Len(y)])))

simpsons_rule(f, a, b, n0) ==
    LET n == simpson_n(n0)
        h == RDiv(RSub(b, a), Int2R(n))
    IN  Bind(array(f, linspace(a, b, n + 1)), LAMBDA y :
          RMul(RDiv(h, Int2R(3)),
               RAdd(RAdd(RAdd(y[1], RMul(Int2R(4), npsum(Slice(y, 1, 2)))),
                         RMul(Int2R(2), npsum(Slice(y, 2, 2)))),
                    y[Len(y)])))

compute_integral(f, a, b, n, method) ==
    CASE method = "trapezoidal" -> trapezoidal_rule(f, a, b, n)
      [] method = "midpoint"    -> midpoint_rule(f, a, b, n)
      [] method = "simpson"     -> simpsons_rule(f, a, b, n)

\* the points a rule evaluates the integrand at
samples(a, b, n, method) ==
    LET h == RDiv(RSub(b, a), Int2R(n))
    IN  CASE method = "trapezoidal" -> {linspace(a, b, n + 1)[i] : i \in 1..(n + 1)}
          [] method = "midpoint"    -> {RAdd(a, RMul(Frac(2 * i + 1, 2), h)) : i \in 0..(n - 1)}
          [] method = "simpson"     ->
                {linspace(a, b, simpson_n(n) + 1)[i] : i \in 1..(simpson_n(n) + 1)}

(***************************************************************************)
(* One call of a rule: integrate(method, f, a, b, n).                      *)
(***************************************************************************)
NoCall == [method |-> "none", f |-> Poly(<<>>), a |-> Zero, b |-> Zero, n |-> 0, result |-> Zero]

Idle == [kind |-> "none"]

Integrate(method) ==
    /\ pc = "idle"
    /\ \E f \in Integrands, a \in Bounds, b \in Bounds, n \in 1..MaxN :
          call' = [method |-> method, f |-> f, a |-> Int2R(a), b |-> Int2R(b), n |-> n,
                   result |-> compute_integral(f, Int2R(a), Int2R(b), n, method)]
    /\ pc' = "returned"
    /\ UNCHANGED <<req, analysis, wire, view, rest, more>>

Trapezoidal == Integrate("trapezoidal")

Midpoint == Integrate("midpoint")

Simpson == Integrate("simpson")

Init ==
    /\ call = NoCall
    /\ pc = "idle"
    /\ req = Idle
    /\ analysis = Idle
    /\ wire = Idle
    /\ view = Idle
    /\ parser = Idle
    /\ norm = Idle
    /\ calc = Idle
    /\ app = Idle
    /\ sent = <<>>
    /\ controls = Idle
    /\ vis = Idle
    /\ runs = Idle
    /\ dash = Idle
    /\ inflight = <<>>
    /\ checked = Idle
    /\ submitted = Idle

Next == Trapezoidal \/ Midpoint \/ Simpson

Spec == Init /\ [][Next]_vars

(***************************************************************************)
(* The true value of the integral of a polynomial, by its antiderivative.  *)
(***************************************************************************)
RECURSIVE RPow(_, _)
RPow(x, k) == IF k = 0 THEN Int2R(1) ELSE RMul(x, RPow(x, k - 1))

RECURSIVE Antiderivative(_, _, _)
Antiderivative(coef, x, k) ==
    IF k > Len(coef) THEN Zero
    ELSE RAdd(RMul(Frac(coef[k], k), RPow(x, k)), Antiderivative(coef, x, k + 1))

TrueIntegral(f, a, b) == RSub(Antiderivative(f.coef, b, 1), Antiderivative(f.coef, a, 1))

\* f is a polynomial, defined everywhere, of degree at most d
DegreeAtMost(f, d) ==
    /\ f.hole = NaN
    /\ \A k \in 1..Len(f.coef) : k > d + 1 => f.coef[k] = 0

(***************************************************************************)
(* The convergence analysis.                                               *)
(***************************************************************************)
None == <<>>

\* sorted(n_values) of Python
RECURSIVE insert(_, _)
insert(x, s) ==
    IF s = <<>> THEN <<x>>
    ELSE IF x < s[1] THEN <<x>> \o s ELSE <<s[1]>> \o insert(x, Tail(s))

RECURSIVE sorted(_)
sorted(s) == IF s = <<>> THEN <<>> ELSE insert(s[Len(s)], sorted(SubSeq(s, 1, Len(s) - 1)))

\* |approx - exact| and |approx - exact| / |exact|
calculate_errors(approx, exact_val) ==
    Bind(RAbs(RSub(approx, exact_val)), LAMBDA err :
        [absolute_error |-> err, relative_error |-> RDiv(err, RAbs(exact_val))])

\* ln(E1/E2) / ln(n2/n1), kept as the two ratios it is computed from;
\* None when one of the errors is zero
calculate_eoc(error1, error2, n1, n2) ==
    IF error1 = Zero \/ error2 = Zero THEN None
    ELSE <<RDiv(error1, error2), Frac(n2, n1)>>

\* the functions analysed: the library's polynomials and the custom
\* expressions with a hole
AnalysisIntegrands == Library \cup Singular

\* the intervals analysed: [0, 1] and [-1, 2]
AnalysisIntervals == {<<Int2R(0), Int2R(1)>>, <<Int2R(-1), Int2R(2)>>}

\* compute_integral(func, a, b, n, method) for the analysed functions and
\* intervals, tabulated: each value is computed once
approximations ==
    [f \in AnalysisIntegrands, iv \in AnalysisIntervals, n \in 1..MaxNValue, method \in Methods |->
        compute_integral(f, iv[1], iv[2], n, method)]

\* the record appended for one n, with the test "prev_error is not None"
\* left out: the first record is compared with itself
error_record_unguarded(f, a, b, method, n, exact_val, prev_error, prev_n) ==
    Bind(approximations[f, <<a, b>>, n, method], LAMBDA approx :
      Bind(calculate_errors(approx, exact_val), LAMBDA errors :
        [n |-> n, h |-> RDiv(RSub(b, a), Int2R(n)),
         approx |-> approx,
         abs_error |-> errors.absolute_error,
         rel_error |-> errors.relative_error,
         eoc |-> calculate_eoc(IF prev_error # None THEN prev_error
                               ELSE errors.absolute_error,
                               errors.absolute_error,
                               IF prev_error # None THEN prev_n ELSE n, n)]))

\* the record appended for one n
error_record(f, a, b, method, n, exact_val, prev_error, prev_n) ==
    Bind(approximations[f, <<a, b>>, n, method], LAMBDA approx :
      Bind(calculate_errors(approx, exact_val), LAMBDA errors :
        [n |-> n, h |-> RDiv(RSub(b, a), Int2R(n)),
         approx |-> approx,
         abs_error |-> errors.absolute_error,
         rel_error |-> errors.relative_error,
         eoc |-> IF prev_error # None
                 THEN calculate_eoc(prev_error, errors.absolute_error, prev_n, n)
                 ELSE None]))

\* the loop over sorted(n_values) for one method, from its i-th element on
RECURSIVE method_loop(_, _, _, _, _, _, _, _, _, _)
method_loop(f, a, b, method, ns, exact_val, i, prev_error, prev_n, method_results) ==
    IF i > Len(ns) THEN method_results
    ELSE Bind(error_record(f, a, b, method, ns[i], exact_val, prev_error, prev_n), LAMBDA r :
           method_loop(f, a, b, method, ns, exact_val, i + 1, r.abs_error, ns[i],
                       Append(method_results, r)))

\* the same loop iterating n_values as given, without sorting
method_results_unsorted(f, a, b, method, n_values, exact_val) ==
    method_loop(f, a, b, method, n_values, exact_val, 1, None, 0, <<>>)

method_results(f, a, b, method, n_values, exact_val) ==
    method_loop(f, a, b, method, sorted(n_values), exact_val, 1, None, 0, <<>>)

\* the absolute error of each method at the last n, in the order of methods
final_errors(methods, results) ==
    [k \in 1..Len(methods) |->
        <<methods[k], results[methods[k]][Len(results[methods[k]])].abs_error>>]

\* min(final_errors, key=final_errors.get): the first entry that no later
\* entry is strictly smaller than
RECURSIVE pymin(_, _, _)
pymin(items, k, best) ==
    IF k > Len(items) THEN best[1]
    ELSE IF RLt(items[k][2], best[2]) THEN pymin(items, k + 1, items[k])
    ELSE pymin(items, k + 1, best)

Range(s) == {s[k] : k \in 1..Len(s)}

analyze_convergence(f, a, b, methods, n_values, exact_val) ==
    Bind([m \in Range(methods) |-> method_results(f, a, b, m, n_values, exact_val)],
         LAMBDA results :
           [kind |-> "result",
            exact_value |-> exact_val,
            results |-> results,
            winner |-> Bind(final_errors(methods, results),
                            LAMBDA fe : pymin(fe, 2, fe[1]))])

\* integrate.quad: the value of the integral; NaN is possible when the
\* integrand has a hole inside the interval, which quad may sample
exact_integral(f, a, b) ==
    {TrueIntegral(f, a, b)} \cup
    (IF f.hole # NaN /\ ~RLt(f.hole, a) /\ ~RLt(b, f.hole) THEN {NaN} ELSE {})

\* the non-empty lists of distinct methods
MethodLists ==
    {ms \in UNION {[1..k -> Methods] : k \in 1..3} :
        \A i, j \in 1..Len(ms) : i # j => ms[i] # ms[j]}

NValueLists == UNION {[1..k -> 1..MaxNValue] : k \in 1..MaxLen}

Analyze ==
    /\ pc = "idle"
    /\ \E f \in AnalysisIntegrands, iv \in AnalysisIntervals,
          methods \in MethodLists, n_values \in NValueLists :
          \E exact_val \in exact_integral(f, iv[1], iv[2]) :
             /\ req' = [kind |-> "analyze", f |-> f, a |-> iv[1], b |-> iv[2],
                        methods |-> methods, n_values |-> n_values]
             /\ analysis' = analyze_convergence(f, iv[1], iv[2], methods, n_values, exact_val)
    /\ pc' = "analyzed"
    /\ UNCHANGED <<call, wire, view, rest, more>>

(***************************************************************************)
(* The response on the wire.  JSON has no NaN and no Infinity: a response  *)
(* holding one either fails to serialise, and the request is rejected, or  *)
(* carries null in its place.                                              *)
(***************************************************************************)
json_number(v) == IF v # None /\ IsFinite(v) THEN v ELSE None

\* ln(E1/E2) / ln(n2/n1) is a finite number
eoc_finite(eoc) == eoc # None /\ IsFinite(eoc[1]) /\ eoc[2] # Int2R(1)

json_record(r) ==
    [n |-> r.n, h |-> json_number(r.h), approx |-> json_number(r.approx),
     abs_error |-> json_number(r.abs_error), rel_error |-> json_number(r.rel_error),
     eoc |-> IF eoc_finite(r.eoc) THEN r.eoc ELSE None]

serialisable(r) ==
    /\ IsFinite(r.h) /\ IsFinite(r.approx) /\ IsFinite(r.abs_error) /\ IsFinite(r.rel_error)
    /\ r.eoc = None \/ eoc_finite(r.eoc)

all_finite(result) ==
    /\ IsFinite(result.exact_value)
    /\ \A m \in DOMAIN result.results :
          \A i \in 1..Len(result.results[m]) : serialisable(result.results[m][i])

\* response.data: keys is the order of the keys of results
json_result(result, methods) ==
    [kind |-> "data",
     exact_value |-> json_number(result.exact_value),
     keys |-> methods,
     results |-> [m \in DOMAIN result.results |->
                    [i \in 1..Len(result.results[m]) |-> json_record(result.results[m][i])]],
     winner |-> result.winner]

Respond ==
    /\ pc = "analyzed"
    /\ \/ /\ wire' = json_result(analysis, req.methods)
          /\ pc' = "received"
       \/ /\ ~all_finite(analysis)
          /\ wire' = [kind |-> "error"]
          /\ pc' = "failed"
    /\ UNCHANGED <<call, req, analysis, view, rest, more>>

(***************************************************************************)
(* ConvergencePlot: the chart data derived from analysisData.              *)
(***************************************************************************)
\* Math.log10(v), kept as a term
log10(v) == [log |-> TRUE, of |-> v]

\* v > 0 of JavaScript: false for null and for NaN
js_gt0(v) == v # None /\ RPos(v)

\* abs_error > 0 ? Math.log10(abs_error) : -16
log_error(abs_error) ==
    IF js_gt0(abs_error) THEN log10(abs_error) ELSE [log |-> FALSE, of |-> Int2R(-16)]

chartData(data) ==
    LET methods == data.keys
        firstMethod == methods[1]
    IN  [idx \in 1..Len(data.results[firstMethod]) |->
           [n |-> data.results[firstMethod][idx].n,
            h |-> data.results[firstMethod][idx].h,
            log_n |-> log10(Int2R(data.results[firstMethod][idx].n)),
            log_h |-> log10(data.results[firstMethod][idx].h),
            points |-> [m \in Range(methods) |->
                          [error |-> data.results[m][idx].abs_error,
                           log_error |-> log_error(data.results[m][idx].abs_error),
                           eoc |-> data.results[m][idx].eoc]]]]

ConvergencePlot ==
    /\ pc = "received"
    /\ view' = [kind |-> "plot", chartData |-> chartData(wire)]
    /\ pc' = "plotted"
    /\ UNCHANGED <<call, req, analysis, wire, rest, more>>

(***************************************************************************)
(* ResultsTable: the rows of the active method.                            *)
(***************************************************************************)
\* v * 100 of JavaScript: null counts as 0
js_times100(v) == IF v = None THEN Zero ELSE RMul(v, Int2R(100))

\* the digits after the point, by long division: <<digits, remainder>>
RECURSIVE frac_digits(_, _, _, _)
frac_digits(r, den, k, acc) ==
    IF k = 0 THEN <<acc, r>>
    ELSE frac_digits((10 * r) % den, den, k - 1, 10 * acc + ((10 * r) \div den))

\* Number.prototype.toFixed(6): "NaN", "Infinity", or the integer part and
\* the six digits after the point, rounded half up in magnitude
toFixed6(v) ==
    IF IsNaN(v) THEN [text |-> "NaN", neg |-> FALSE, int |-> 0, frac |-> 0]
    ELSE IF ~IsFinite(v) THEN [text |-> "Infinity", neg |-> v[1] < 0, int |-> 0, frac |-> 0]
    ELSE LET num == Abs(v[1])
             d   == frac_digits(num % v[2], v[2], 6, 0)
             up  == IF 2 * d[2] >= v[2] THEN d[1] + 1 ELSE d[1]
         IN  [text |-> "digits", neg |-> v[1] < 0,
              int |-> (num \div v[2]) + (IF up = 1000000 THEN 1 ELSE 0),
              frac |-> IF up = 1000000 THEN 0 ELSE up]

\* one row of the table: N, the relative error cell and the EOC cell
table_row(row) ==
    [n |-> row.n,
     rel_error |-> toFixed6(js_times100(row.rel_error)),
     eoc |-> IF row.eoc # None THEN [dash |-> FALSE, of |-> row.eoc]
             ELSE [dash |-> TRUE, of |-> None]]

ResultsTable ==
    /\ pc = "received"
    /\ \E activeMethod \in Range(wire.keys) :
          view' = [kind |-> "table", activeMethod |-> activeMethod,
                   rows |-> [idx \in 1..Len(wire.results[activeMethod]) |->
                               table_row(wire.results[activeMethod][idx])]]
    /\ pc' = "tabled"
    /\ UNCHANGED <<call, req, analysis, wire, rest, more>>

NextAnalysis == Analyze \/ Respond \/ ConvergencePlot \/ ResultsTable

SpecAnalysis == Init /\ [][NextAnalysis]_vars

(***************************************************************************)
(* C1: for Simpson's rule with an odd subdivision count n the computation  *)
(* uses n+1 subintervals, and the n and h of the error record are the      *)
(* adjusted values n+1 and (b-a)/(n+1), not the caller's n and (b-a)/n.    *)
(***************************************************************************)
C1_SimpsonReportsAdjusted ==
    (analysis.kind = "result" /\ "simpson" \in DOMAIN analysis.results) =>
        \A i \in 1..Len(req.n_values) :
            sorted(req.n_values)[i] % 2 = 1 =>
                /\ analysis.results["simpson"][i].approx =
                       simpsons_rule(req.f, req.a, req.b, sorted(req.n_values)[i] + 1)
                /\ analysis.results["simpson"][i].n = sorted(req.n_values)[i] + 1
                /\ analysis.results["simpson"][i].h =
                       RDiv(RSub(req.b, req.a), Int2R(sorted(req.n_values)[i] + 1))

(***************************************************************************)
(* C2: for each rule, swapping the bounds negates the result, and a call   *)
(* with b < a returns a value like any other:                              *)
(* rule(f, b, a, n) = -rule(f, a, b, n).                                   *)
(***************************************************************************)
C2_SwapNegates ==
    pc = "returned" =>
        compute_integral(call.f, call.b, call.a, call.n, call.method) = RNeg(call.result)

\* a call with reversed bounds that returned a finite non-zero value
C2_Witness ==
    /\ pc = "returned"
    /\ RLt(call.b, call.a)
    /\ IsFinite(call.result)
    /\ call.result # Zero

(***************************************************************************)
(* C3: the trapezoidal rule returns the true integral of every polynomial  *)
(* of degree <= 1, for every interval and every n >= 1; for f = 2x + 1 on  *)
(* [0, 2] with n = 1 it returns 6.                                         *)
(***************************************************************************)
C3_TrapezoidalExactLinear ==
    (pc = "returned" /\ call.method = "trapezoidal" /\ DegreeAtMost(call.f, 1)) =>
        /\ call.result = TrueIntegral(call.f, call.a, call.b)
        /\ (call.f = Poly(<<1, 2>>) /\ call.a = Zero /\ call.b = Int2R(2) /\ call.n = 1)
               => call.result = Int2R(6)

\* the call trapezoidal(2x + 1, 0, 2, 1)
C3_Witness ==
    /\ pc = "returned"
    /\ call.method = "trapezoidal"
    /\ call.f = Poly(<<1, 2>>)
    /\ call.a = Zero
    /\ call.b = Int2R(2)
    /\ call.n = 1
    /\ call.result = Int2R(6)

(***************************************************************************)
(* C4: for every polynomial of degree <= 3, every interval and every even  *)
(* n >= 2, Simpson's rule returns the true integral.                       *)
(***************************************************************************)
C4_SimpsonExactCubic ==
    (pc = "returned" /\ call.method = "simpson" /\ call.n % 2 = 0 /\ DegreeAtMost(call.f, 3)) =>
        call.result = TrueIntegral(call.f, call.a, call.b)

\* Simpson's rule on a genuine cubic with n = 4, over a non-empty interval
C4_Witness ==
    /\ pc = "returned"
    /\ call.method = "simpson"
    /\ call.n = 4
    /\ call.f = Poly(<<0, -3, 0, 1>>)
    /\ call.a # call.b
    /\ call.result = TrueIntegral(call.f, call.a, call.b)

(***************************************************************************)
(* C5: the winner of the convergence analysis is the method whose absolute *)
(* error at the largest n is smallest among the requested methods; when    *)
(* several methods share the smallest error the winner is the one listed   *)
(* first in methods.  A method whose final error is NaN is not counted as  *)
(* a competitor of the winner, and is not itself smaller than anything.    *)
(***************************************************************************)
C5_WinnerSmallestFinalError ==
    analysis.kind = "result" =>
        \E w \in 1..Len(req.methods) :
            /\ req.methods[w] = analysis.winner
            /\ \A k \in 1..Len(req.methods) :
                  LET fe == final_errors(req.methods, analysis.results)
                  IN  /\ IsNaN(fe[k][2]) \/ fe[w][2] = fe[k][2] \/ RLt(fe[w][2], fe[k][2])
                      /\ k < w => fe[k][2] # fe[w][2]

(***************************************************************************)
(* C6: in every per-method list of error records eoc is null for the first *)
(* record; for every later record eoc is null exactly when the previous or *)
(* the current absolute error is zero, and otherwise it is formed from the *)
(* two consecutive errors and the two subdivision counts.                  *)
(***************************************************************************)
C6_EocNull ==
    analysis.kind = "result" =>
        \A m \in DOMAIN analysis.results :
            \A i \in 1..Len(analysis.results[m]) :
                LET rs == analysis.results[m]
                IN  IF i = 1 THEN rs[i].eoc = None
                    ELSE /\ rs[i].eoc = None <=>
                               (rs[i - 1].abs_error = Zero \/ rs[i].abs_error = Zero)
                         /\ rs[i].eoc # None =>
                               rs[i].eoc = <<RDiv(rs[i - 1].abs_error, rs[i].abs_error),
                                             Frac(rs[i].n, rs[i - 1].n)>>

\* one analysis with a second record whose eoc is null because an error is
\* zero, and a second record of another method whose eoc is defined
C6_Witness ==
    /\ analysis.kind = "result"
    /\ \E m1, m2 \in DOMAIN analysis.results :
          /\ Len(analysis.results[m1]) = 2
          /\ analysis.results[m1][2].eoc = None
          /\ analysis.results[m1][1].abs_error = Zero
          /\ analysis.results[m2][1].eoc = None
          /\ analysis.results[m2][1].abs_error # Zero
          /\ analysis.results[m2][2].eoc # None

C8_NaNPropagates ==
    (pc = "returned" /\ \E x \in samples(call.a, call.b, call.n, call.method) :
                            IsNaN(func(call.f, x)))
        => IsNaN(call.result)

\* Simpson's rule that hit NaN at exactly one interior point of several
C8_Witness ==
    /\ pc = "returned"
    /\ call.method = "simpson"
    /\ call.a # call.b
    /\ call.f.hole \in samples(call.a, call.b, call.n, call.method) \ {call.a, call.b}
    /\ IsNaN(call.result)

(***************************************************************************)
(* C9: a record whose absolute error is degenerate (NaN or absent) is      *)
(* shown distinctly from a record with a zero error: the value the         *)
(* convergence plot derives for a degenerate abs_error differs from the    *)
(* value it derives for abs_error = 0.                                     *)
(***************************************************************************)
C9_DegenerateDistinctFromZero ==
    view.kind = "plot" =>
        \A idx \in DOMAIN view.chartData :
            \A m \in DOMAIN view.chartData[idx].points :
                (view.chartData[idx].points[m].error = None
                   \/ IsNaN(view.chartData[idx].points[m].error)) =>
                    view.chartData[idx].points[m].log_error # log_error(Zero)

(***************************************************************************)
(* C10: when the exact value is 0 the relative error of every error record *)
(* is the sentinel +inf or NaN, and the results table never shows it as an *)
(* ordinary finite number such as 0.                                       *)
(***************************************************************************)
C10_RelativeErrorSentinel ==
    (analysis.kind = "result" /\ analysis.exact_value = Zero) =>
        /\ \A m \in DOMAIN analysis.results :
              \A i \in 1..Len(analysis.results[m]) :
                  ~IsFinite(analysis.results[m][i].rel_error)
        /\ view.kind = "table" =>
              \A idx \in DOMAIN view.rows : view.rows[idx].rel_error.text # "digits"

(***************************************************************************)
(* SafeExpressionParser.  A source text is taken as the syntax tree        *)
(* ast.parse gives for it: a node is its class, its tag (the id of a Name, *)
(* the operator of a BinOp or UnaryOp, the kind of a Constant, the module  *)
(* of an Import) and its children.                                         *)
(***************************************************************************)
ALLOWED_NAMES == {"x", "sin", "cos", "tan", "exp", "log", "sqrt", "abs", "pi", "e"}

\* the operator whitelist with the modulo operator let in
ALLOWED_OPERATORS_with_mod == {"Add", "Sub", "Mult", "Div", "Pow", "USub", "UAdd", "Mod"}

ALLOWED_OPERATORS == {"Add", "Sub", "Mult", "Div", "Pow", "USub", "UAdd"}

Node(type, tag, kids) == [type |-> type, tag |-> tag, kids |-> kids]

\* x, pi, sin, os, __import__, 2, 'a', []
Leaves ==
    {Node("Name", id, <<>>) : id \in {"x", "pi", "sin", "os", "__import__"}}
    \cup {Node("Constant", "num", <<>>), Node("Constant", "str", <<>>), Node("List", "", <<>>)}

\* one operation over leaves: l op r, op v, f(v), v.attr, v[i]
Operations ==
    {Node("BinOp", op, <<l, r>>) : op \in {"Add", "Pow", "Mod", "FloorDiv"}, l \in Leaves, r \in Leaves}
    \cup {Node("UnaryOp", op, <<v>>) : op \in {"USub", "Not"}, v \in Leaves}
    \cup {Node("Call", "", <<f, v>>) : f \in Leaves, v \in Leaves}
    \cup {Node("Attribute", "system", <<v>>) : v \in Leaves}
    \cup {Node("Subscript", "", <<v, i>>) : v \in Leaves, i \in Leaves}

\* a call or a negation of an operation: sin(x ** 2), os.system('a'), -(x + 2)
Nested ==
    {Node("Call", "", <<f, v>>) : f \in Leaves \cup {Node("Attribute", "system", <<w>>) : w \in Leaves},
                                  v \in {o \in Operations : o.type \in {"BinOp", "Attribute"}}}
    \cup {Node("UnaryOp", "USub", <<v>>) : v \in {o \in Operations : o.type = "Call"}}

\* the statements import os and x = 2, which are no expressions
Statements == {Node("Import", "os", <<>>), Node("Assign", "x", <<Node("Constant", "num", <<>>)>>)}

Sources == Leaves \cup Operations \cup Nested \cup Statements

\* ast.walk(tree): the nodes of the tree
RECURSIVE walk(_)
walk(node) == {node} \cup UNION {walk(node.kids[k]) : k \in DOMAIN node.kids}

\* the node is one the parser accepts
whitelisted(node) ==
    CASE node.type = "Name" -> node.tag \in ALLOWED_NAMES
      [] node.type = "Constant" -> node.tag = "num"
      [] node.type \in {"BinOp", "UnaryOp"} -> node.tag \in ALLOWED_OPERATORS
      [] node.type = "Call" -> node.kids[1].type = "Name"
      [] OTHER -> FALSE

\* evaluate_expression(source): every node is checked, then the callable is
\* built; nothing is evaluated here
evaluate_expression(tree) ==
    [kind |-> "parsed", source |-> tree,
     outcome |-> IF \A node \in walk(tree) : whitelisted(node)
                 THEN "callable" ELSE "InvalidExpressionError",
     evaluated |-> {}]

EvaluateExpression ==
    /\ parser = Idle
    /\ \E tree \in Sources : parser' = evaluate_expression(tree)
    /\ UNCHANGED <<core, norm, calc, app, sent, controls, vis, runs, more>>

\* func(x): the callable evaluates the nodes of its expression
CallCallable ==
    /\ parser # Idle
    /\ parser.outcome = "callable"
    /\ parser.evaluated = {}
    /\ parser' = [parser EXCEPT !.evaluated = walk(parser.source)]
    /\ UNCHANGED <<core, norm, calc, app, sent, controls, vis, runs, more>>

NextParser == EvaluateExpression \/ CallCallable

SpecParser == Init /\ [][NextParser]_vars

Digits == {"0", "1", "2", "3", "4", "5", "6", "7", "8", "9"}

Letters ==
    {"a", "b", "c", "d", "e", "f", "g", "h", "i", "j", "k", "l", "m",
     "n", "o", "p", "q", "r", "s", "t", "u", "v", "w", "x", "y", "z",
     "A", "B", "C", "D", "E", "F", "G", "H", "I", "J", "K", "L", "M",
     "N", "O", "P", "Q", "R", "S", "T", "U", "V", "W", "X", "Y", "Z"}

\* .replace(/\^/g, "**")
RECURSIVE replace_caret(_)
replace_caret(s) ==
    IF s = <<>> THEN <<>>
    ELSE (IF s[1] = "^" THEN <<"*", "*">> ELSE <<s[1]>>) \o replace_caret(Tail(s))

\* the letter-digit step written as /([^\d])(\d)/: a * before every digit
\* that follows a character that is no digit
matches_before_digit(s, i, step) ==
    /\ i + 1 <= Len(s)
    /\ CASE step = "digit letter" -> s[i] \in Digits /\ s[i + 1] \in Letters
         [] step = "letter digit" -> s[i] \notin Digits /\ s[i + 1] \in Digits
         [] step = "letter, digit" -> s[i] \in Letters /\ s[i + 1] \in Digits
         [] step = ")(" -> s[i] = ")" /\ s[i + 1] = "("
         [] step = "digit(" -> s[i] \in Digits /\ s[i + 1] = "("
         [] step = ")digit" -> s[i] = ")" /\ s[i + 1] \in Digits

\* the regular expression of a step matches the characters i, i+1 of s:
\*   "digit letter"  /(\d)([a-zA-Z])/
\*   "letter digit"  /([a-zA-Z])(\d)(?![*])/, unless the two characters
\*                   before the match are **
\*   "letter, digit" /([a-zA-Z])(\d)/, of validateExpression
\*   ")("            /\)\(/
\*   "digit("        /(\d)\(/
\*   ")digit"        /\)(\d)/
matches(s, i, step) ==
    /\ i + 1 <= Len(s)
    /\ CASE step = "digit letter" -> s[i] \in Digits /\ s[i + 1] \in Letters
         [] step = "letter digit" ->
               /\ s[i] \in Letters /\ s[i + 1] \in Digits
               /\ ~(i + 2 <= Len(s) /\ s[i + 2] = "*")
               /\ ~(i >= 3 /\ s[i - 2] = "*" /\ s[i - 1] = "*")
         [] step = "letter, digit" -> s[i] \in Letters /\ s[i + 1] \in Digits
         [] step = ")(" -> s[i] = ")" /\ s[i + 1] = "("
         [] step = "digit(" -> s[i] \in Digits /\ s[i + 1] = "("
         [] step = ")digit" -> s[i] = ")" /\ s[i + 1] \in Digits

\* .replace(/../g, ..): a * goes between the two characters of every match
RECURSIVE insert_star(_, _, _)
insert_star(s, i, step) ==
    IF i > Len(s) THEN <<>>
    ELSE <<s[i]>> \o (IF matches(s, i, step) THEN <<"*">> ELSE <<>>) \o insert_star(s, i + 1, step)

\* normalizeForBackend with the first implicit-multiplication step only
normalizeForBackend_one_step(expr) ==
    IF expr = <<>> THEN <<>>
    ELSE insert_star(replace_caret(expr), 1, "digit letter")

normalizeForBackend(expr) ==
    IF expr = <<>> THEN <<>>
    ELSE insert_star(
           insert_star(
             insert_star(
               insert_star(
                 insert_star(replace_caret(expr), 1, "digit letter"),
                 1, "letter digit"),
               1, ")("),
             1, "digit("),
           1, ")digit")

\* the characters expressions are written with here
Alphabet == {"^", "*", "2", "x", "(", ")"}

\* the strings of at most MaxExprLen characters, and 2x+1
Expressions ==
    UNION {[1..k -> Alphabet] : k \in 0..MaxExprLen} \cup {<<"2", "x", "+", "1">>}

Normalize ==
    /\ norm = Idle
    /\ \E expr \in Expressions :
          norm' = [kind |-> "normalized", input |-> expr, output |-> normalizeForBackend(expr)]
    /\ UNCHANGED <<core, parser, calc, app, sent, controls, vis, runs, more>>

NextNormalize == Normalize

SpecNormalize == Init /\ [][NextNormalize]_vars

(***************************************************************************)
(* C12: normalization is idempotent: for every string s,                   *)
(* normalizeForBackend(normalizeForBackend(s)) = normalizeForBackend(s).   *)
(***************************************************************************)
C12_NormalizeIdempotent ==
    norm # Idle => normalizeForBackend(norm.output) = norm.output

\* a string every step of the normalization changes
C12_Witness ==
    /\ norm # Idle
    /\ norm.input = <<"2", "x", "^", "2">>
    /\ norm.output # norm.input
    /\ normalizeForBackend(norm.output) = norm.output

(***************************************************************************)
(* C13: the output of normalizeForBackend holds no caret, each one being   *)
(* replaced by two stars; no digit immediately followed by a letter and no *)
(* closing parenthesis immediately followed by an opening one, a star      *)
(* being inserted between them; 2x+1 becomes 2*x+1; x**2 is left as it is. *)
(***************************************************************************)
C13_NormalizedForm ==
    norm # Idle =>
        /\ \A i \in 1..Len(norm.output) : norm.output[i] # "^"
        /\ \A i \in 1..(Len(norm.output) - 1) :
              /\ ~(norm.output[i] \in Digits /\ norm.output[i + 1] \in Letters)
              /\ ~(norm.output[i] = ")" /\ norm.output[i + 1] = "(")
        /\ Cardinality({i \in 1..Len(norm.input) : norm.input[i] = "^"}) * 2
             + Cardinality({i \in 1..Len(norm.input) : norm.input[i] = "*"})
             <= Cardinality({i \in 1..Len(norm.output) : norm.output[i] = "*"})
        /\ norm.input = <<"2", "x", "+", "1">> => norm.output = <<"2", "*", "x", "+", "1">>
        /\ norm.input = <<"x", "*", "*", "2">> => norm.output = norm.input

\* 2x+1 has been normalized to 2*x+1
C13_Witness ==
    /\ norm # Idle
    /\ norm.input = <<"2", "x", "+", "1">>
    /\ norm.output = <<"2", "*", "x", "+", "1">>

(***************************************************************************)
(* MathCalculator: validation of the expression typed.                     *)
(***************************************************************************)
\* expr.trim() for the white space there is here, the blank
RECURSIVE trimStart(_)
trimStart(s) == IF s # <<>> /\ s[1] = " " THEN trimStart(Tail(s)) ELSE s

RECURSIVE trimEnd(_)
trimEnd(s) ==
    IF s # <<>> /\ s[Len(s)] = " " THEN trimEnd(SubSeq(s, 1, Len(s) - 1)) ELSE s

trim(s) == trimEnd(trimStart(s))

\* pattern.test(s) for a pattern that is a plain string
includes(s, pattern) ==
    \E i \in 1..Len(s) :
        i + Len(pattern) - 1 <= Len(s) /\ SubSeq(s, i, i + Len(pattern) - 1) = pattern

\* the loop over the parentheses: the count after character i, or -1 once a
\* closing parenthesis came first
RECURSIVE parenCount(_, _, _)
parenCount(s, i, count) ==
    IF count < 0 THEN -1
    ELSE IF i > Len(s) THEN count
    ELSE parenCount(s, i + 1, IF s[i] = "(" THEN count + 1
                              ELSE IF s[i] = ")" THEN count - 1 ELSE count)

\* validateExpression without its check for a missing closing parenthesis
validateExpression_open_allowed(expr) ==
    IF trim(expr) = <<>> THEN TRUE
    ELSE LET normalized == insert_star(insert_star(replace_caret(expr), 1, "digit letter"),
                                       1, "letter, digit")
         IN  /\ parenCount(normalized, 1, 0) >= 0
             /\ ~includes(normalized, <<"*", "*", "*">>)
             /\ ~includes(normalized, <<"/", "/">>)
             /\ ~includes(normalized, <<"+", "+">>)
             /\ ~includes(normalized, <<"-", "-">>)
             /\ ~(Len(normalized) >= 2 /\ SubSeq(normalized, Len(normalized) - 1, Len(normalized)) = <<"*", "*">>)
             /\ normalized[Len(normalized)] # "("
             /\ normalized[1] # ")"
             /\ ~includes(normalized, <<"(", ")">>)

\* validateExpression: the value it returns and sets isValid to
validateExpression(expr) ==
    IF trim(expr) = <<>> THEN TRUE
    ELSE LET normalized == insert_star(insert_star(replace_caret(expr), 1, "digit letter"),
                                       1, "letter, digit")
         IN  /\ parenCount(normalized, 1, 0) = 0
             /\ ~includes(normalized, <<"*", "*", "*">>)
             /\ ~includes(normalized, <<"/", "/">>)
             /\ ~includes(normalized, <<"+", "+">>)
             /\ ~includes(normalized, <<"-", "-">>)
             /\ ~(Len(normalized) >= 2 /\ SubSeq(normalized, Len(normalized) - 1, Len(normalized)) = <<"*", "*">>)
             /\ normalized[Len(normalized)] # "("
             /\ normalized[1] # ")"
             /\ ~includes(normalized, <<"(", ")">>)

\* validateExpression: the message it sets (the count of the missing
\* parentheses and the tick of the last message are left out of the text)
validationMessage(expr) ==
    IF trim(expr) = <<>> THEN ""
    ELSE LET normalized == insert_star(insert_star(replace_caret(expr), 1, "digit letter"),
                                       1, "letter, digit")
         IN  CASE parenCount(normalized, 1, 0) < 0 -> "Unbalanced parentheses - extra closing )"
               [] parenCount(normalized, 1, 0) > 0 -> "Missing closing parenthesis"
               [] OTHER ->
                    IF includes(normalized, <<"*", "*", "*">>) THEN "Invalid operator: ***"
                    ELSE IF includes(normalized, <<"/", "/">>) THEN "Invalid operator: //"
                    ELSE IF includes(normalized, <<"+", "+">>) THEN "Invalid operator: ++"
                    ELSE IF includes(normalized, <<"-", "-">>) THEN "Use - for subtraction"
                    ELSE IF Len(normalized) >= 2
                            /\ SubSeq(normalized, Len(normalized) - 1, Len(normalized)) = <<"*", "*">>
                         THEN "Power needs an exponent"
                    ELSE IF normalized[Len(normalized)] = "(" THEN "Empty parentheses"
                    ELSE IF normalized[1] = ")" THEN "Expression cannot start with )"
                    ELSE IF includes(normalized, <<"(", ")">>) THEN "Empty parentheses ()"
                    ELSE "Valid expression"

(***************************************************************************)
(* App and the calculator mounted in it: the function source, the bounds,  *)
(* the methods and the error banner.  A handler that awaits its requests   *)
(* is one step; sent holds the requests the last step sent.  The data the  *)
(* responses bring are not part of this state.                             *)
(***************************************************************************)
\* the entries of GET /functions shown here: id and default bounds
Catalog ==
    <<[kind |-> "catalog", id |-> "poly_linear", default_a |-> Int2R(0), default_b |-> Int2R(1)],
      [kind |-> "catalog", id |-> "poly_quadratic", default_a |-> Int2R(-1), default_b |-> Int2R(2)]>>

\* selectedFunction: null, and the object handleCustomFunctionSubmit builds
NullFunction == [kind |-> "null", id |-> "null", default_a |-> NaN, default_b |-> NaN]

CustomFunction == [kind |-> "custom", id |-> "null", default_a |-> NaN, default_b |-> NaN]

\* Math.PI, by the rational 355/113
PI == Frac(355, 113)

\* parseFloat of a text of decimal digits; NaN for any other text
RECURSIVE digitsValue(_, _)
digitsValue(text, acc) ==
    IF text = <<>> THEN acc
    ELSE digitsValue(Tail(text),
                     10 * acc + (CHOOSE d \in 0..9 :
                                    <<"0", "1", "2", "3", "4", "5", "6", "7", "8", "9">>[d + 1] = text[1]))

parseFloat(text) ==
    IF text # <<>> /\ \A i \in 1..Len(text) : text[i] \in Digits
    THEN Int2R(digitsValue(text, 0)) ELSE NaN

\* parseFloat(e.target.value) || 0
boundValue(text) ==
    IF IsNaN(parseFloat(text)) \/ parseFloat(text) = Zero THEN Zero ELSE parseFloat(text)

\* what is typed into a bounds input
BoundTexts == {<<>>, <<"1">>}

\* the buttons pressed and the texts typed or picked here
Keys == {"x", "^"}

Texts == {<<" ">>, <<"x", "*", "*", "2">>}

NoFunctionSource == [sent |-> FALSE, value |-> <<>>]

\* the body of a request: function_id or custom_expression, each with the
\* value sent for it when it is part of the body
requestBase(a) ==
    IF a.useCustomFunction
    THEN [function_id |-> NoFunctionSource,
          custom_expression |-> [sent |-> TRUE, value |-> a.customExpression]]
    ELSE [function_id |-> [sent |-> TRUE, value |-> a.selectedFunction.id],
          custom_expression |-> NoFunctionSource]

calculateRequest(base, a) ==
    [endpoint |-> "/calculate", function_id |-> base.function_id,
     custom_expression |-> base.custom_expression,
     method |-> IF a.selectedMethods = <<>> THEN "undefined" ELSE a.selectedMethods[1],
     a |-> a.bounds.a, b |-> a.bounds.b, n |-> a.n]

analyzeRequest(base, a) ==
    [endpoint |-> "/analyze", function_id |-> base.function_id,
     custom_expression |-> base.custom_expression,
     methods |-> a.selectedMethods, a |-> a.bounds.a, b |-> a.bounds.b,
     n_values |-> <<4, 8, 16, 32, 64, 128, 256, 512, 1024>>]

\* the try block of handleAnalyze and of handleCustomFunctionSubmit: the
\* calculate request, then, if it succeeded, the analyze request; response
\* is "ok", "calculate failed" or "analyze failed"
runRequests(a, response) ==
    /\ sent' = IF response = "calculate failed"
               THEN <<calculateRequest(requestBase(a), a)>>
               ELSE <<calculateRequest(requestBase(a), a), analyzeRequest(requestBase(a), a)>>
    /\ app' = [a EXCEPT !.error = response # "ok"]

Responses == {"ok", "calculate failed", "analyze failed"}

\* App mounts: the initial state, then loadFunctions
Mount ==
    /\ app = Idle
    /\ \E loaded \in BOOLEAN :
          app' = [kind |-> "app",
                  functions |-> IF loaded THEN Catalog ELSE <<>>,
                  selectedFunction |-> IF loaded THEN Catalog[1] ELSE NullFunction,
                  customExpression |-> <<>>,
                  useCustomFunction |-> FALSE,
                  bounds |-> IF loaded THEN [a |-> Catalog[1].default_a, b |-> Catalog[1].default_b]
                             ELSE [a |-> Zero, b |-> PI],
                  n |-> 64,
                  selectedMethods |-> <<"trapezoidal", "midpoint", "simpson">>,
                  error |-> ~loaded,
                  sidebarMode |-> "preset"]
    /\ sent' = <<>>
    /\ UNCHANGED <<core, parser, norm, calc, controls, vis, runs, more>>

\* the Preset / Custom toggle; the calculator is mounted in custom mode only
SetSidebarMode ==
    /\ app # Idle
    /\ \E mode \in {"preset", "custom"} :
          /\ mode # app.sidebarMode
          /\ app' = [app EXCEPT !.sidebarMode = mode]
          /\ calc' = IF mode = "custom" THEN [kind |-> "calculator", expression |-> <<>>, isValid |-> TRUE]
                     ELSE Idle
    /\ sent' = <<>>
    /\ UNCHANGED <<core, parser, norm, controls, vis, runs, more>>

handleFunctionSelect ==
    /\ app # Idle
    /\ app.sidebarMode = "preset"
    /\ \E k \in DOMAIN app.functions :
          app' = [app EXCEPT !.selectedFunction = app.functions[k],
                             !.useCustomFunction = FALSE,
                             !.bounds = [a |-> app.functions[k].default_a,
                                         b |-> app.functions[k].default_b]]
    /\ sent' = <<>>
    /\ UNCHANGED <<core, parser, norm, calc, controls, vis, runs, more>>

\* the two bounds inputs under the calculator
BoundsChange ==
    /\ app # Idle
    /\ app.sidebarMode = "custom"
    /\ \E text \in BoundTexts :
          \/ app' = [app EXCEPT !.bounds.a = boundValue(text)]
          \/ app' = [app EXCEPT !.bounds.b = boundValue(text)]
    /\ sent' = <<>>
    /\ UNCHANGED <<core, parser, norm, calc, controls, vis, runs, more>>

handleMethodToggle ==
    /\ app # Idle
    /\ \E method \in Methods :
          app' = [app EXCEPT !.selectedMethods =
                     IF method \in Range(@)
                     THEN SelectSeq(@, LAMBDA m : m # method)
                     ELSE Append(@, method)]
    /\ sent' = <<>>
    /\ UNCHANGED <<core, parser, norm, calc, controls, vis, runs, more>>

\* setExpression(value), onExpressionChange(value) and the effect that
\* validates the new expression
changeExpression(value) ==
    /\ calc' = [calc EXCEPT !.expression = value, !.isValid = validateExpression(value)]
    /\ app' = [app EXCEPT !.customExpression = value]
    /\ sent' = <<>>
    /\ UNCHANGED <<core, parser, norm, controls, vis, runs, more>>

insertText ==
    /\ calc # Idle
    /\ Len(calc.expression) < MaxTyped
    /\ \E text \in Keys : changeExpression(Append(calc.expression, text))

handleBackspace ==
    /\ calc # Idle
    /\ changeExpression(SubSeq(calc.expression, 1, Len(calc.expression) - 1))

handleClear ==
    /\ calc # Idle
    /\ changeExpression(<<>>)

\* the text input and the Quick Start buttons
TextChange ==
    /\ calc # Idle
    /\ \E value \in Texts : changeExpression(value)

\* handleCustomFunctionSubmit without its check of selectedMethods
handleSubmit_any_methods ==
    /\ calc # Idle
    /\ trim(calc.expression) # <<>>
    /\ calc.isValid
    /\ LET expr == normalizeForBackend(calc.expression)
       IN  IF expr = <<>>
           THEN UNCHANGED <<app, sent>>
           ELSE \E response \in Responses :
                   runRequests([app EXCEPT !.customExpression = expr,
                                           !.useCustomFunction = TRUE,
                                           !.selectedFunction = CustomFunction,
                                           !.error = FALSE], response)
    /\ UNCHANGED <<core, parser, norm, calc, controls, vis, runs, more>>

\* the Analyze This Function button: handleSubmit, then
\* handleCustomFunctionSubmit with the normalized expression
handleSubmit ==
    /\ calc # Idle
    /\ trim(calc.expression) # <<>>
    /\ calc.isValid
    /\ LET expr == normalizeForBackend(calc.expression)
       IN  IF expr = <<>> \/ app.selectedMethods = <<>>
           THEN UNCHANGED <<app, sent>>
           ELSE \E response \in Responses :
                   runRequests([app EXCEPT !.customExpression = expr,
                                           !.useCustomFunction = TRUE,
                                           !.selectedFunction = CustomFunction,
                                           !.error = FALSE], response)
    /\ UNCHANGED <<core, parser, norm, calc, controls, vis, runs, more>>

\* the Run Analysis button
handleAnalyze ==
    /\ app # Idle
    /\ app.selectedMethods # <<>>
    /\ IF app.selectedFunction = NullFunction /\ app.customExpression = <<>>
       THEN UNCHANGED <<app, sent>>
       ELSE IF ~app.useCustomFunction /\ app.selectedFunction = NullFunction
       THEN /\ app' = [app EXCEPT !.error = TRUE]
            /\ sent' = <<>>
       ELSE \E response \in Responses : runRequests([app EXCEPT !.error = FALSE], response)
    /\ UNCHANGED <<core, parser, norm, calc, controls, vis, runs, more>>

NextApp ==
    \/ Mount \/ SetSidebarMode \/ handleFunctionSelect \/ BoundsChange \/ handleMethodToggle
    \/ insertText \/ handleBackspace \/ handleClear \/ TextChange \/ handleSubmit \/ handleAnalyze

SpecApp == Init /\ [][NextApp]_vars

(***************************************************************************)
(* C14: after any sequence of user actions, every custom_expression sent   *)
(* to the backend in a calculate or analyze request is a normalized        *)
(* expression: an output of normalizeForBackend, which by idempotence is a *)
(* string normalizeForBackend leaves as it is.                             *)
(***************************************************************************)
C14_SentExpressionNormalized ==
    \A k \in 1..Len(sent) :
        sent[k].custom_expression.sent =>
            normalizeForBackend(sent[k].custom_expression.value) = sent[k].custom_expression.value

(***************************************************************************)
(* C15: every calculate or analyze request carries exactly one function    *)
(* source: a catalog function_id that is not null, or a custom_expression  *)
(* that is not the empty string.                                           *)
(***************************************************************************)
C15_OneFunctionSource ==
    \A k \in 1..Len(sent) :
        \/ /\ sent[k].function_id.sent
           /\ sent[k].function_id.value # "null"
           /\ ~sent[k].custom_expression.sent
        \/ /\ sent[k].custom_expression.sent
           /\ sent[k].custom_expression.value # <<>>
           /\ ~sent[k].function_id.sent

(***************************************************************************)
(* MethodControls: the number of intervals.  n is the prop App passes, set *)
(* by onNChange (App's setN).                                              *)
(***************************************************************************)
presetValues == <<4, 8, 16, 32, 64, 128, 256, 512, 1024>>

DigitChars == <<"0", "1", "2", "3", "4", "5", "6", "7", "8", "9">>

\* the leading decimal digits of text
RECURSIVE leadingDigits(_)
leadingDigits(text) ==
    IF text # <<>> /\ text[1] \in Digits THEN <<text[1]>> \o leadingDigits(Tail(text)) ELSE <<>>

\* parseInt(text): an optional sign and the digits that follow it, up to the
\* first character that is no digit; NaN when there is no digit
parseInt(text) ==
    LET negative == text # <<>> /\ text[1] = "-"
        body == IF text # <<>> /\ text[1] \in {"-", "+"} THEN Tail(text) ELSE text
    IN  IF leadingDigits(body) = <<>> THEN [nan |-> TRUE, value |-> 0]
        ELSE [nan |-> FALSE,
              value |-> IF negative THEN 0 - digitsValue(leadingDigits(body), 0)
                        ELSE digitsValue(leadingDigits(body), 0)]

\* num.toString() for an integer num >= 0
RECURSIVE toString(_)
toString(num) ==
    IF num < 10 THEN <<DigitChars[num + 1]>>
    ELSE Append(toString(num \div 10), DigitChars[(num % 10) + 1])

\* what is typed into the custom input: nothing, 0, 1, 7, 1024, 1025, 2000,
\* -3, 12.7, 1e3
NTexts ==
    {<<>>, <<"0">>, <<"1">>, <<"7">>, <<"1", "0", "2", "4">>, <<"1", "0", "2", "5">>,
     <<"2", "0", "0", "0">>, <<"-", "3">>, <<"1", "2", ".", "7">>, <<"1", "e", "3">>}

\* MethodControls mounts with App's initial n
MountControls ==
    /\ controls = Idle
    /\ controls' = [kind |-> "controls", n |-> 64, customN |-> toString(64),
                    showCustomInput |-> FALSE]
    /\ UNCHANGED <<core, parser, norm, calc, app, sent, vis, runs, more>>

\* the Custom Value / Use Presets button
ToggleCustomInput ==
    /\ controls # Idle
    /\ controls' = [controls EXCEPT !.showCustomInput = ~@]
    /\ UNCHANGED <<core, parser, norm, calc, app, sent, vis, runs, more>>

\* handleCustomNChange with the test of the range left out
handleCustomNChange_unchecked ==
    /\ controls # Idle
    /\ controls.showCustomInput
    /\ \E value \in NTexts :
          controls' = [controls EXCEPT !.customN = value,
                                       !.n = IF ~parseInt(value).nan THEN parseInt(value).value ELSE @]
    /\ UNCHANGED <<core, parser, norm, calc, app, sent, vis, runs, more>>

handleCustomNChange ==
    /\ controls # Idle
    /\ controls.showCustomInput
    /\ \E value \in NTexts :
          controls' = [controls EXCEPT
                         !.customN = value,
                         !.n = IF ~parseInt(value).nan /\ parseInt(value).value >= 1
                                  /\ parseInt(value).value <= 1024
                               THEN parseInt(value).value ELSE @]
    /\ UNCHANGED <<core, parser, norm, calc, app, sent, vis, runs, more>>

handlePresetClick ==
    /\ controls # Idle
    /\ ~controls.showCustomInput
    /\ \E k \in DOMAIN presetValues :
          controls' = [controls EXCEPT !.customN = toString(presetValues[k]),
                                       !.n = presetValues[k],
                                       !.showCustomInput = FALSE]
    /\ UNCHANGED <<core, parser, norm, calc, app, sent, vis, runs, more>>

\* the value handleCustomNBlur passes on for the text customN
clamped(customN) ==
    IF parseInt(customN).nan \/ parseInt(customN).value < 1 THEN 1
    ELSE IF parseInt(customN).value > 1024 THEN 1024
    ELSE parseInt(customN).value

\* blur of the custom input, or Enter in it
handleCustomNBlur ==
    /\ controls # Idle
    /\ controls.showCustomInput
    /\ controls' = [controls EXCEPT !.customN = toString(clamped(controls.customN)),
                                    !.n = clamped(controls.customN)]
    /\ UNCHANGED <<core, parser, norm, calc, app, sent, vis, runs, more>>

NextControls ==
    \/ MountControls \/ ToggleCustomInput \/ handleCustomNChange
    \/ handlePresetClick \/ handleCustomNBlur

SpecControls == Init /\ [][NextControls]_vars

(***************************************************************************)
(* C16: n is always an integer with 1 <= n <= 1024, after any sequence of  *)
(* preset clicks, custom-input changes and blur or Enter events: a step of *)
(* handleCustomNChange changes n only to the value its text parses to, and *)
(* only when that is in 1..1024; a step of handleCustomNBlur sets n to 1   *)
(* for a text that is unparsable or below 1, to 1024 for a text above      *)
(* 1024, and to the parsed value otherwise.                                *)
(***************************************************************************)
C16_NInRange ==
    [][controls' # Idle =>
         /\ controls'.n \in 1..1024
         /\ (handleCustomNChange /\ controls'.n # controls.n) =>
               /\ ~parseInt(controls'.customN).nan
               /\ parseInt(controls'.customN).value = controls'.n
         /\ handleCustomNBlur =>
               /\ (parseInt(controls.customN).nan \/ parseInt(controls.customN).value < 1)
                     => controls'.n = 1
               /\ (~parseInt(controls.customN).nan /\ parseInt(controls.customN).value > 1024)
                     => controls'.n = 1024
               /\ (~parseInt(controls.customN).nan /\ parseInt(controls.customN).value \in 1..1024)
                     => controls'.n = parseInt(controls.customN).value
               /\ controls'.customN = toString(controls'.n)]_vars

\* 1025 has been typed and n is still what it was
C16_Witness ==
    /\ controls # Idle
    /\ controls.showCustomInput
    /\ controls.customN = <<"1", "0", "2", "5">>
    /\ controls.n = 64

(***************************************************************************)
(* get_visualization_data: the shapes drawn for a rule.  x_points is the   *)
(* point layout of the rule: np.linspace(a, b, n + 1), with n made even    *)
(* for Simpson's rule.                                                     *)
(***************************************************************************)
\* range(start, stop, step) of Python, as the sequence of its values
range(start, stop, step) ==
    [k \in 1..(IF stop <= start THEN 0 ELSE (stop - start + step - 1) \div step) |->
        start + (k - 1) * step]

trapezoid(f, x_points, i) ==
    [type |-> "trapezoid", x0 |-> x_points[i + 1], x1 |-> x_points[i + 2],
     y0 |-> func(f, x_points[i + 1]), y1 |-> func(f, x_points[i + 2])]

\* the rectangle with its height taken at the left end of the subinterval
rectangle_left(f, x_points, i) ==
    [type |-> "rectangle", x0 |-> x_points[i + 1], x1 |-> x_points[i + 2],
     y |-> func(f, x_points[i + 1])]

rectangle(f, x_points, i) ==
    [type |-> "rectangle", x0 |-> x_points[i + 1], x1 |-> x_points[i + 2],
     y |-> func(f, RDiv(RAdd(x_points[i + 1], x_points[i + 2]), Int2R(2)))]

parabola(f, x_points, i) ==
    [type |-> "parabola",
     x0 |-> x_points[i + 1], x1 |-> x_points[i + 2], x2 |-> x_points[i + 3],
     y0 |-> func(f, x_points[i + 1]), y1 |-> func(f, x_points[i + 2]),
     y2 |-> func(f, x_points[i + 3])]

\* the loop of the method over the subintervals, one parabola per subinterval
\* instead of one per pair
shapes_every_subinterval(f, x_points, n, method) ==
    [k \in 1..(n - 1) |->
        CASE method = "trapezoidal" -> trapezoid(f, x_points, k - 1)
          [] method = "midpoint" -> rectangle(f, x_points, k - 1)
          [] method = "simpson" -> parabola(f, x_points, k - 1)]

\* the loop of the method: for i in range(n), or for i in range(0, n, 2)
shapes(f, x_points, n, method) ==
    CASE method = "trapezoidal" ->
            [k \in DOMAIN range(0, n, 1) |-> trapezoid(f, x_points, range(0, n, 1)[k])]
      [] method = "midpoint" ->
            [k \in DOMAIN range(0, n, 1) |-> rectangle(f, x_points, range(0, n, 1)[k])]
      [] method = "simpson" ->
            [k \in DOMAIN range(0, n, 2) |-> parabola(f, x_points, range(0, n, 2)[k])]

\* the number of subintervals the shapes are drawn for: Simpson's rule works
\* on an even number, as simpsons_rule does
visualization_n(n0, method) == IF method = "simpson" THEN simpson_n(n0) ELSE n0

\* x_points: the sample points of the rule, a + i*h for i = 0..n
visualization_points(a, b, n) == linspace(a, b, n + 1)

get_visualization_data(f, a, b, n0, method) ==
    LET n == visualization_n(n0, method)
    IN  Bind(visualization_points(a, b, n), LAMBDA x_points :
          [kind |-> "visualization", method |-> method, f |-> f, a |-> a, b |-> b, n |-> n0,
           x_points |-> x_points,
           shapes |-> shapes(f, x_points, n, method)])

BuildVisualization ==
    /\ vis = Idle
    /\ \E f \in AnalysisIntegrands, a \in Bounds, b \in Bounds, n \in 1..MaxN, method \in Methods :
          vis' = get_visualization_data(f, Int2R(a), Int2R(b), n, method)
    /\ UNCHANGED <<core, parser, norm, calc, app, sent, controls, runs, more>>

NextVisualization == BuildVisualization

SpecVisualization == Init /\ [][NextVisualization]_vars

shape_area(shape) ==
    CASE shape.type = "trapezoid" ->
            RDiv(RMul(RSub(shape.x1, shape.x0), RAdd(shape.y0, shape.y1)), Int2R(2))
      [] shape.type = "rectangle" -> RMul(RSub(shape.x1, shape.x0), shape.y)
      [] shape.type = "parabola" ->
            RMul(RDiv(RSub(shape.x2, shape.x0), Int2R(6)),
                 RAdd(RAdd(shape.y0, RMul(Int2R(4), shape.y1)), shape.y2))

RECURSIVE total_area(_)
total_area(ss) == IF ss = <<>> THEN Zero ELSE RAdd(shape_area(ss[1]), total_area(Tail(ss)))

C25_MethodsNonEmpty ==
    sent # <<>> =>
        /\ app.selectedMethods # <<>>
        /\ sent[1].endpoint = "/calculate"
        /\ sent[1].method = app.selectedMethods[1]
        /\ Len(sent) = 2 =>
              /\ sent[2].endpoint = "/analyze"
              /\ sent[2].methods = app.selectedMethods
              /\ sent[1].method \in Range(sent[2].methods)

\* a run after trapezoidal and midpoint were switched off and trapezoidal on
\* again: calculate is asked for simpson, analyze for simpson and trapezoidal
C25_Witness ==
    /\ Len(sent) = 2
    /\ sent[1].method = "simpson"
    /\ sent[2].methods = <<"simpson", "trapezoidal">>

(***************************************************************************)
(* The test function library and its best_method annotation.  The catalog  *)
(* maps a function id to its descriptor; the frontend shows best_method as *)
(* a badge and sends function_id; the backend resolves the id to the       *)
(* callable and analyses it.                                               *)
(***************************************************************************)
FunctionIds == {"poly_linear", "poly_quadratic"}

\* the Best Method column of the library table, and no annotation
BestMethods == Methods \cup {"null"}

\* the library with the annotation of one entry replaced
TEST_FUNCTIONS(id, best_method) ==
    [i \in FunctionIds |->
        [id |-> i,
         func |-> IF i = "poly_linear" THEN Poly(<<1, 2>>) ELSE Poly(<<0, -2, 1>>),
         default_a |-> IF i = "poly_linear" THEN Int2R(0) ELSE Int2R(-1),
         default_b |-> IF i = "poly_linear" THEN Int2R(1) ELSE Int2R(2),
         best_method |-> IF i = id THEN best_method
                         ELSE IF i = "poly_linear" THEN "trapezoidal" ELSE "midpoint"]]

methodLabels == [trapezoidal |-> "Trap", midpoint |-> "Mid", simpson |-> "Simp"]

\* {func.best_method && <span>{methodLabels[func.best_method]}</span>}
badge(entry) == IF entry.best_method # "null" THEN methodLabels[entry.best_method] ELSE "null"

\* the callable of a catalog entry
resolve(catalog, function_id) == catalog[function_id].func

\* the analysis that reports the annotation as the winner
analyze_request_annotated(catalog, request, exact_val) ==
    LET result == analyze_convergence(resolve(catalog, request.function_id),
                                      request.a, request.b, request.methods,
                                      request.n_values, exact_val)
        best == catalog[request.function_id].best_method
    IN  IF best # "null" THEN [result EXCEPT !.winner = best] ELSE result

\* POST /analyze for a catalog function
analyze_request(catalog, request, exact_val) ==
    analyze_convergence(resolve(catalog, request.function_id),
                        request.a, request.b, request.methods, request.n_values, exact_val)

\* one run: the entry is selected from the catalog, its badge is shown, the
\* request carries its id and default bounds, the backend answers
run(catalog, id, methods, n_values, exact_val) ==
    LET entry == catalog[id]
        request == [function_id |-> entry.id, methods |-> methods,
                    a |-> entry.default_a, b |-> entry.default_b, n_values |-> n_values]
    IN  [descriptor |-> entry, badge |-> badge(entry), request |-> request,
         analysis |-> analyze_request(catalog, request, exact_val)]

\* two runs for the same entry, methods and n_values, under two catalogs that
\* differ only in the entry's best_method
AnalyzeAnnotated ==
    /\ runs = Idle
    /\ \E id \in FunctionIds, best_method \in BestMethods,
          methods \in MethodLists, n_values \in NValueLists :
          LET original == IF id = "poly_linear" THEN "trapezoidal" ELSE "midpoint"
              first  == TEST_FUNCTIONS(id, original)
              second == TEST_FUNCTIONS(id, best_method)
          IN  /\ best_method # original
              /\ \E exact_val \in exact_integral(first[id].func, first[id].default_a,
                                                first[id].default_b) :
                    runs' = [kind |-> "runs",
                             first |-> run(first, id, methods, n_values, exact_val),
                             second |-> run(second, id, methods, n_values, exact_val)]
    /\ UNCHANGED <<core, parser, norm, calc, app, sent, controls, vis, more>>

NextCatalog == AnalyzeAnnotated

SpecCatalog == Init /\ [][NextCatalog]_vars

C20_DegenerateIntervalFails ==
    pc = "returned" => call.a # call.b

(***************************************************************************)
(* The dashboard as it runs.  dash is the state of App together with the   *)
(* expression of the calculator mounted in it; inflight holds the requests *)
(* that have been sent and not yet answered: the initial getFunctions and  *)
(* the analysis runs, each run with the two requests its handler builds    *)
(* from the values it was called with and the one it is waiting for; sent  *)
(* holds the requests the last step sent.  A handler runs up to its next   *)
(* await in one step, and the arrival of a response is a step.             *)
(***************************************************************************)
\* everything but the dashboard
offDashboard == <<core, parser, norm, calc, app, controls, vis, runs, checked, submitted>>

\* the inputs of the controls in this specification: the text typed into the
\* calculator and into a bounds input, the value N is set to, the method
\* toggled
DashTexts == {<<"x">>}

DashBoundTexts == {<<"1">>}

DashN == {presetValues[1]}

DashToggles == {"trapezoidal"}

NoData == [kind |-> "null"]

\* response.data of a request
responseData(request) == [kind |-> "data", request |-> request]

\* the object handleCustomFunctionSubmit stores in selectedFunction
customFunction(expr) == [kind |-> "custom", id |-> "null", name |-> expr]

\* err.response?.data?.detail || fallback
errorMessage(detail, fallback) == IF detail # "undefined" THEN detail ELSE fallback

Details == {"undefined", "detail"}

\* a run of handleAnalyze or handleCustomFunctionSubmit at its first await
startRun(handler, d) ==
    [kind |-> "run", handler |-> handler, awaiting |-> "calculate",
     calculate |-> calculateRequest(requestBase(d), d),
     analyze |-> analyzeRequest(requestBase(d), d)]

\* inflight without its k-th request
answered(k) == [i \in 1..(Len(inflight) - 1) |-> IF i < k THEN inflight[i] ELSE inflight[i + 1]]

\* App mounts: the initial state, and the effect calls loadFunctions
MountApp ==
    /\ dash = Idle
    /\ dash' = [kind |-> "app",
                functions |-> <<>>,
                selectedFunction |-> NullFunction,
                customExpression |-> <<>>,
                useCustomFunction |-> FALSE,
                bounds |-> [a |-> Zero, b |-> PI],
                n |-> 64,
                selectedMethods |-> <<"trapezoidal", "midpoint", "simpson">>,
                loading |-> FALSE,
                error |-> "null",
                calculateData |-> NoData,
                analysisData |-> NoData,
                sidebarMode |-> "preset",
                expression |-> <<>>]
    /\ inflight' = <<[kind |-> "getFunctions"]>>
    /\ sent' = <<[endpoint |-> "/functions"]>>
    /\ UNCHANGED offDashboard

\* loadFunctions after its await: the list arrives, or the request fails
loadFunctions ==
    /\ \E k \in DOMAIN inflight :
          /\ inflight[k].kind = "getFunctions"
          /\ inflight' = answered(k)
          /\ \/ dash' = [dash EXCEPT !.functions = Catalog,
                                     !.selectedFunction = Catalog[1],
                                     !.bounds = [a |-> Catalog[1].default_a,
                                                 b |-> Catalog[1].default_b]]
             \/ dash' = [dash EXCEPT !.error = "Failed to load functions. Is the backend running?"]
    /\ sent' = <<>>
    /\ UNCHANGED offDashboard

\* a control that sends nothing changes the state of App
setState(d) ==
    /\ dash' = d
    /\ sent' = <<>>
    /\ UNCHANGED <<inflight, offDashboard>>

\* the Preset / Custom buttons, never disabled; the calculator starts empty
\* each time it is mounted
onSidebarMode ==
    /\ dash # Idle
    /\ \E mode \in {"preset", "custom"} :
          /\ mode # dash.sidebarMode
          /\ setState([dash EXCEPT !.sidebarMode = mode, !.expression = <<>>])

\* a function button of FunctionSelector: handleFunctionSelect
onSelectFunction ==
    /\ dash # Idle
    /\ dash.sidebarMode = "preset"
    /\ ~dash.loading
    /\ \E k \in DOMAIN dash.functions :
          setState([dash EXCEPT !.selectedFunction = dash.functions[k],
                                !.useCustomFunction = FALSE,
                                !.bounds = [a |-> dash.functions[k].default_a,
                                            b |-> dash.functions[k].default_b],
                                !.calculateData = NoData,
                                !.analysisData = NoData])

\* the lower bound input of FunctionSelector and of the custom sidebar (the
\* upper bound input is the same code with b for a)
onBoundsChange ==
    /\ dash # Idle
    /\ ~dash.loading
    /\ \E text \in DashBoundTexts :
          setState([dash EXCEPT !.bounds.a = boundValue(text)])

\* the N presets and the custom N input of MethodControls
onNChange ==
    /\ dash # Idle
    /\ ~dash.loading
    /\ \E value \in DashN : setState([dash EXCEPT !.n = value])

\* a method button of MethodControls: handleMethodToggle
onMethodToggle ==
    /\ dash # Idle
    /\ ~dash.loading
    /\ \E method \in DashToggles :
          setState([dash EXCEPT !.selectedMethods =
                       IF method \in Range(@)
                       THEN SelectSeq(@, LAMBDA m : m # method)
                       ELSE Append(@, method)])

\* setExpression(value) and onExpressionChange(value)
onExpressionChange(value) ==
    setState([dash EXCEPT !.expression = value, !.customExpression = value])

\* the text input of the calculator, disabled while loading
onType ==
    /\ dash # Idle
    /\ dash.sidebarMode = "custom"
    /\ ~dash.loading
    /\ \E value \in DashTexts : onExpressionChange(value)

\* the backspace and AC buttons, which have no disabled attribute
onBackspace ==
    /\ dash # Idle
    /\ dash.sidebarMode = "custom"
    /\ onExpressionChange(SubSeq(dash.expression, 1, Len(dash.expression) - 1))

onClear ==
    /\ dash # Idle
    /\ dash.sidebarMode = "custom"
    /\ onExpressionChange(<<>>)

\* the close button of the error banner
onErrorClose ==
    /\ dash # Idle
    /\ dash.error # "null"
    /\ setState([dash EXCEPT !.error = "null"])

\* the Run Analysis button: handleAnalyze up to its first await.  With no
\* function at all it returns; reading selectedFunction.id of null throws,
\* which the catch and finally blocks handle at once
onAnalyze ==
    /\ dash # Idle
    /\ ~dash.loading
    /\ dash.selectedMethods # <<>>
    /\ IF dash.selectedFunction = NullFunction /\ dash.customExpression = <<>>
       THEN setState(dash)
       ELSE IF ~dash.useCustomFunction /\ dash.selectedFunction = NullFunction
       THEN setState([dash EXCEPT !.error = "Analysis failed. Please try again.",
                                  !.loading = FALSE])
       ELSE /\ dash' = [dash EXCEPT !.loading = TRUE, !.error = "null"]
            /\ inflight' = Append(inflight, startRun("handleAnalyze", dash))
            /\ sent' = <<calculateRequest(requestBase(dash), dash)>>
            /\ UNCHANGED offDashboard

\* the Analyze This Function button: handleSubmit, then
\* handleCustomFunctionSubmit with the normalized expression up to its
\* first await
onSubmit ==
    /\ dash # Idle
    /\ dash.sidebarMode = "custom"
    /\ ~dash.loading
    /\ trim(dash.expression) # <<>>
    /\ validateExpression(dash.expression)
    /\ LET expr == normalizeForBackend(dash.expression)
           d == [dash EXCEPT !.customExpression = expr,
                             !.useCustomFunction = TRUE,
                             !.selectedFunction = customFunction(expr),
                             !.loading = TRUE,
                             !.error = "null",
                             !.calculateData = NoData,
                             !.analysisData = NoData]
       IN  IF expr = <<>> \/ dash.selectedMethods = <<>>
           THEN setState(dash)
           ELSE /\ dash' = d
                /\ inflight' = Append(inflight, startRun("handleCustomFunctionSubmit", d))
                /\ sent' = <<calculateRequest(requestBase(d), d)>>
                /\ UNCHANGED offDashboard

\* the message of the catch block of each handler
fallback(handler) ==
    IF handler = "handleAnalyze" THEN "Analysis failed. Please try again."
    ELSE "Analysis failed. Please check your expression."

\* the calculate request of a run is answered: setCalculateData, and the
\* analyze request is sent
calculateResolves ==
    /\ \E k \in DOMAIN inflight :
          /\ inflight[k].kind = "run"
          /\ inflight[k].awaiting = "calculate"
          /\ dash' = [dash EXCEPT !.calculateData = responseData(inflight[k].calculate)]
          /\ inflight' = [inflight EXCEPT ![k].awaiting = "analyze"]
          /\ sent' = <<inflight[k].analyze>>
    /\ UNCHANGED offDashboard

\* the catch block with no finally block after it
rejects_without_finally(k) ==
    /\ \E detail \in Details :
          dash' = [dash EXCEPT !.error = errorMessage(detail, fallback(inflight[k].handler))]
    /\ inflight' = answered(k)
    /\ sent' = <<>>
    /\ UNCHANGED offDashboard

\* a request of a run fails: the catch block, then the finally block
rejects(k) ==
    /\ \E detail \in Details :
          dash' = [dash EXCEPT !.error = errorMessage(detail, fallback(inflight[k].handler)),
                               !.loading = FALSE]
    /\ inflight' = answered(k)
    /\ sent' = <<>>
    /\ UNCHANGED offDashboard

\* the failure of calculate caught on its own, the handler going on to analyze
calculateRejects_then_analyze ==
    /\ \E k \in DOMAIN inflight :
          /\ inflight[k].kind = "run"
          /\ inflight[k].awaiting = "calculate"
          /\ dash' = [dash EXCEPT !.error = fallback(inflight[k].handler)]
          /\ inflight' = [inflight EXCEPT ![k].awaiting = "analyze"]
          /\ sent' = <<inflight[k].analyze>>
    /\ UNCHANGED offDashboard

calculateRejects ==
    \E k \in DOMAIN inflight :
       /\ inflight[k].kind = "run"
       /\ inflight[k].awaiting = "calculate"
       /\ rejects(k)

\* the analyze request of a run is answered: setAnalysisData, then the
\* finally block
analyzeResolves ==
    /\ \E k \in DOMAIN inflight :
          /\ inflight[k].kind = "run"
          /\ inflight[k].awaiting = "analyze"
          /\ dash' = [dash EXCEPT !.analysisData = responseData(inflight[k].analyze),
                                  !.loading = FALSE]
          /\ inflight' = answered(k)
    /\ sent' = <<>>
    /\ UNCHANGED offDashboard

analyzeRejects ==
    \E k \in DOMAIN inflight :
       /\ inflight[k].kind = "run"
       /\ inflight[k].awaiting = "analyze"
       /\ rejects(k)

NextDashboard ==
    \/ MountApp \/ loadFunctions
    \/ onSidebarMode \/ onSelectFunction \/ onBoundsChange \/ onNChange \/ onMethodToggle
    \/ onType \/ onBackspace \/ onClear \/ onErrorClose
    \/ onAnalyze \/ onSubmit
    \/ calculateResolves \/ calculateRejects \/ analyzeResolves \/ analyzeRejects

SpecDashboard == Init /\ [][NextDashboard]_vars

\* the analysis runs in flight
runsInFlight == {k \in DOMAIN inflight : inflight[k].kind = "run"}

\* the loading flag of App
loading == dash # Idle /\ dash.loading

\* every request sent is answered: it resolves or it is rejected
Answered ==
    /\ WF_vars(loadFunctions)
    /\ WF_vars(calculateResolves \/ calculateRejects)
    /\ WF_vars(analyzeResolves \/ analyzeRejects)

FairDashboard == SpecDashboard /\ Answered

\* the run whose calculate request is answered in this step, and how
calculateAnswered(k) ==
    /\ k \in runsInFlight
    /\ inflight[k].awaiting = "calculate"
    /\ \/ inflight' = [inflight EXCEPT ![k].awaiting = "analyze"]
       \/ inflight' = answered(k)

calculateSucceeded(k) ==
    /\ calculateAnswered(k)
    /\ inflight' = [inflight EXCEPT ![k].awaiting = "analyze"]

calculateFailed(k) ==
    /\ calculateAnswered(k)
    /\ inflight' = answered(k)

analyzeSent == \E i \in DOMAIN sent' : sent'[i].endpoint = "/analyze"

(***************************************************************************)
(* C22: in handleAnalyze and in handleCustomFunctionSubmit the analyze     *)
(* request is sent only in the step in which the calculate request of the  *)
(* same run has succeeded; when calculate fails, that run sends no analyze *)
(* request, error is set to a message and analysisData stays as it was.    *)
(***************************************************************************)
C22_AnalyzeAfterCalculate ==
    [][/\ analyzeSent =>
            \E k \in DOMAIN inflight :
               /\ calculateSucceeded(k)
               /\ sent' = <<inflight[k].analyze>>
               /\ dash'.calculateData = responseData(inflight[k].calculate)
       /\ \A k \in DOMAIN inflight :
             calculateFailed(k) =>
                /\ ~analyzeSent
                /\ dash'.error # "null"
                /\ dash'.analysisData = dash.analysisData]_vars

\* a run of handleCustomFunctionSubmit whose calculate request has failed:
\* the banner shows its message, and nothing is in flight
C22_Witness ==
    /\ dash # Idle
    /\ dash.error = "Analysis failed. Please check your expression."
    /\ dash.calculateData = NoData
    /\ dash.analysisData = NoData
    /\ dash.useCustomFunction
    /\ ~dash.loading
    /\ inflight = <<>>
    /\ sent = <<>>

(***************************************************************************)
(* C23: loading is true whenever a calculate or analyze request is in      *)
(* flight, and if every request is answered, loading returns to false      *)
(* after every run, whichever of the two requests fails or both succeed.   *)
(***************************************************************************)
C23_LoadingCoversRun ==
    /\ [](runsInFlight # {} => loading)
    /\ (loading ~> (~loading /\ runsInFlight = {}))

\* both requests of a run have been answered well and loading is false again
C23_Witness ==
    /\ dash # Idle
    /\ ~dash.loading
    /\ inflight = <<>>
    /\ dash.calculateData # NoData
    /\ dash.analysisData # NoData
    /\ dash.analysisData.request.function_id = dash.calculateData.request.function_id

\* the values a run is computed from
inputs(d) ==
    <<d.selectedFunction, d.useCustomFunction, d.customExpression, d.bounds, d.n,
      d.selectedMethods>>

(***************************************************************************)
(* C24: at most one analysis run is in flight at any time, and while       *)
(* loading is true no control changes the inputs of the run: a step that   *)
(* neither sends nor answers a request leaves the function, the            *)
(* expression, the bounds, N and the methods as they were.                 *)
(***************************************************************************)
C24_OneRunInFlight ==
    /\ [](Cardinality(runsInFlight) <= 1)
    /\ [][(loading /\ inflight' = inflight) => inputs(dash') = inputs(dash)]_vars

(***************************************************************************)
(* MathCalculator on its own: the state the validation effect leaves for   *)
(* an expression, and handleSubmit called in that state.                   *)
(***************************************************************************)
\* the expressions of the calculator: those of the normalization and blank ones
Blank == {<<>>, <<" ">>, <<" ", " ">>}

Typed == Expressions \cup Blank

\* expression, isValid and validationMessage once the effect has validated
validated(expr) ==
    [expression |-> expr, isValid |-> validateExpression(expr),
     validationMessage |-> validationMessage(expr)]

\* handleSubmit with no check of isValid
MathCalculator_handleSubmit_unchecked(c) ==
    IF trim(c.expression) = <<>>
    THEN [state |-> [c EXCEPT !.validationMessage = "Please enter an expression",
                              !.isValid = FALSE],
          onSubmit |-> <<>>]
    ELSE [state |-> c, onSubmit |-> <<normalizeForBackend(c.expression)>>]

\* handleSubmit of MathCalculator: the state it leaves and the calls of
\* onSubmit it makes
MathCalculator_handleSubmit(c) ==
    IF trim(c.expression) = <<>>
    THEN [state |-> [c EXCEPT !.validationMessage = "Please enter an expression",
                              !.isValid = FALSE],
          onSubmit |-> <<>>]
    ELSE IF ~c.isValid
    THEN [state |-> c, onSubmit |-> <<>>]
    ELSE [state |-> c, onSubmit |-> <<normalizeForBackend(c.expression)>>]

\* the effect validates an expression
Validate ==
    /\ checked = Idle
    /\ \E expr \in Typed : checked' = [kind |-> "checked"] @@ validated(expr)
    /\ UNCHANGED <<core, rest, dash, inflight, submitted>>

\* handleSubmit is called with an expression the effect has validated
Submit ==
    /\ submitted = Idle
    /\ \E expr \in Typed :
          submitted' = [kind |-> "submitted", before |-> validated(expr)]
                          @@ MathCalculator_handleSubmit(validated(expr))
    /\ UNCHANGED <<core, rest, dash, inflight, checked>>

NextValidate == Validate

SpecValidate == Init /\ [][NextValidate]_vars

NextSubmit == Submit

SpecSubmit == Init /\ [][NextSubmit]_vars

(***************************************************************************)
(* C26: handleSubmit calls onSubmit only when the expression is not blank  *)
(* and isValid is true; with a blank expression it sets isValid to false   *)
(* and the message to 'Please enter an expression' and calls nothing; with *)
(* an invalid expression it calls nothing and leaves the expression as it  *)
(* is.                                                                     *)
(***************************************************************************)
C26_SubmitOnlyValid ==
    submitted # Idle =>
        /\ submitted.onSubmit # <<>> =>
              trim(submitted.before.expression) # <<>> /\ submitted.before.isValid
        /\ trim(submitted.before.expression) = <<>> =>
              /\ ~submitted.state.isValid
              /\ submitted.state.validationMessage = "Please enter an expression"
              /\ submitted.onSubmit = <<>>
        /\ (trim(submitted.before.expression) # <<>> /\ ~submitted.before.isValid) =>
              /\ submitted.onSubmit = <<>>
              /\ submitted.state.expression = submitted.before.expression

\* handleSubmit with the invalid expression (x: nothing is called and nothing
\* changes
C26_Witness ==
    /\ submitted # Idle
    /\ submitted.before.expression = <<"(", "x">>
    /\ ~submitted.before.isValid
    /\ submitted.onSubmit = <<>>
    /\ submitted.state = submitted.before

\* the numbers of ch in s
count(s, ch) == Cardinality({i \in 1..Len(s) : s[i] = ch})

\* some prefix has more ) than (, or there are more ( than ) in all
unbalanced(s) ==
    \/ \E k \in 1..Len(s) : count(SubSeq(s, 1, k), ")") > count(SubSeq(s, 1, k), "(")
    \/ count(s, "(") > count(s, ")")

(***************************************************************************)
(* C27: validateExpression marks a non-blank expression invalid whenever   *)
(* its parentheses are unbalanced, so a non-blank expression marked valid  *)
(* has balanced parentheses; a blank expression is valid with an empty     *)
(* message.                                                                *)
(***************************************************************************)
C27_ValidIsBalanced ==
    checked # Idle =>
        /\ (trim(checked.expression) # <<>> /\ unbalanced(checked.expression)) =>
              ~checked.isValid
        /\ (trim(checked.expression) # <<>> /\ checked.isValid) =>
              ~unbalanced(checked.expression)
        /\ trim(checked.expression) = <<>> =>
              checked.isValid /\ checked.validationMessage = ""

\* (x) is valid and balanced
C27_Witness ==
    /\ checked # Idle
    /\ checked.expression = <<"(", "x", ")">>
    /\ checked.isValid
    /\ checked.validationMessage = "Valid expression"
    /\ ~unbalanced(checked.expression)

\* the function source and the bounds of a request
sourceAndBounds(request) ==
    <<request.function_id, request.custom_expression, request.a, request.b>>

(***************************************************************************)
(* C28: whenever loading is false and calculateData and analysisData are   *)
(* both set, they come from the same run: their requests have the same     *)
(* function source and the same bounds.                                    *)
(***************************************************************************)
C28_DataOfOneRun ==
    (dash # Idle /\ ~dash.loading /\ dash.calculateData # NoData /\ dash.analysisData # NoData) =>
        sourceAndBounds(dash.calculateData.request) = sourceAndBounds(dash.analysisData.request)

\* a request was made for the function held in selectedFunction
computedFor(request, selectedFunction) ==
    IF request.function_id.sent
    THEN selectedFunction.kind = "catalog" /\ selectedFunction.id = request.function_id.value
    ELSE selectedFunction.kind = "custom" /\ selectedFunction.name = request.custom_expression.value

(***************************************************************************)
(* C29: whenever loading is false, the calculateData and the analysisData  *)
(* that are set were computed for the function held in selectedFunction.   *)
(***************************************************************************)
C29_DataOfSelectedFunction ==
    (dash # Idle /\ ~dash.loading) =>
        /\ dash.calculateData # NoData =>
              computedFor(dash.calculateData.request, dash.selectedFunction)
        /\ dash.analysisData # NoData =>
              computedFor(dash.analysisData.request, dash.selectedFunction)

methodNames == [trapezoidal |-> "Trapezoidal", midpoint |-> "Midpoint", simpson |-> "Simpson's"]

\* FunctionPlot with the props App gives it: data={calculateData},
\* method={selectedMethods[0]}, n={n}; the header names the method and N
FunctionPlot(d) ==
    IF d.calculateData = NoData
    THEN [shows |-> FALSE, method |-> "", n |-> 0, data |-> NoData]
    ELSE [shows |-> TRUE,
          method |-> IF d.selectedMethods = <<>> THEN "Unknown"
                     ELSE methodNames[d.selectedMethods[1]],
          n |-> d.n,
          data |-> d.calculateData]

(***************************************************************************)
(* C30: whenever FunctionPlot shows data, the method and the N of its      *)
(* header are the method and the n of the calculate request that produced  *)
(* the data.                                                               *)
(***************************************************************************)
C30_PlotHeaderMatchesData ==
    (dash # Idle /\ FunctionPlot(dash).shows) =>
        /\ FunctionPlot(dash).method = methodNames[FunctionPlot(dash).data.request.method]
        /\ FunctionPlot(dash).n = FunctionPlot(dash).data.request.n

=============================================================================
